---- MODULE Spec2Model ----
(***************************************************************************)
(* A model of the Telegram message preprocessor (src/index.mjs) and of the *)
(* TelegramProxy wrapper (src/unnamed/part_000).                           *)
(*                                                                         *)
(* A JavaScript string is a sequence of one-character strings.  String     *)
(* positions are 0-based, as in the source; Slice, IndexOfFrom and the     *)
(* match operators take and return 0-based positions.  The four characters *)
(* outside ASCII that the source uses are single elements named by their   *)
(* code point: Nul (U+0000), Bullet (U+2022), MidDot (U+00B7) and EmDash   *)
(* (U+2014); so is the grave accent, BackTick (U+0060).                    *)
(***************************************************************************)
EXTENDS Integers, Sequences, FiniteSets, TLC

\* ------------------------------------------------------------------------
\* Characters and character classes
\* ------------------------------------------------------------------------

Nul == "U+0000"
Bullet == "U+2022"
MidDot == "U+00B7"
EmDash == "U+2014"
BackTick == "U+0060"

\* The white space of \s and of trim()/trimEnd() that the modelled inputs use.
WhiteSpace == {" ", "\t", "\n", "\r"}

\* The line terminators of the dot and of a multiline dollar assertion.
LineTerminators == {"\n", "\r"}

Digits == {"0", "1", "2", "3", "4", "5", "6", "7", "8", "9"}

HexDigits == Digits \cup {"a", "b", "c", "d", "e", "f", "A", "B", "C", "D", "E", "F"}

Letters ==
    {"a", "b", "c", "d", "e", "f", "g", "h", "i", "j", "k", "l", "m",
     "n", "o", "p", "q", "r", "s", "t", "u", "v", "w", "x", "y", "z",
     "A", "B", "C", "D", "E", "F", "G", "H", "I", "J", "K", "L", "M",
     "N", "O", "P", "Q", "R", "S", "T", "U", "V", "W", "X", "Y", "Z"}

\* The class \w.
WordChars == Letters \cup Digits \cup {"_"}

\* ------------------------------------------------------------------------
\* String primitives (String.prototype.*), 0-based
\* ------------------------------------------------------------------------

Min(a, b) == IF a <= b THEN a ELSE b

Max(a, b) == IF a >= b THEN a ELSE b

\* The greatest element of a set of positions, or -1 when it is empty
MaxOrNone(S) == IF S = {} THEN -1 ELSE CHOOSE e \in S : \A x \in S : x <= e

\* The least element of a set of positions, or -1 when it is empty
MinOrNone(S) == IF S = {} THEN -1 ELSE CHOOSE e \in S : \A x \in S : e <= x

\* s.slice(from, to) for from, to >= 0
Slice(s, from, to) ==
    IF Min(Max(from, 0), Len(s)) >= Min(Max(to, 0), Len(s)) THEN <<>>
    ELSE SubSeq(s, Max(from, 0) + 1, Min(to, Len(s)))

\* s.slice(from)
SliceFrom(s, from) == Slice(s, from, Len(s))

\* s[i], the character at 0-based position i (i < s.length)
At(s, i) == s[i + 1]

\* s.startsWith(pat, i)
StartsWithAt(s, pat, i) ==
    /\ i >= 0
    /\ i + Len(pat) <= Len(s)
    /\ \A k \in 1..Len(pat) : s[i + k] = pat[k]

\* s.indexOf(pat, i): the least position >= i where pat occurs, or -1
RECURSIVE IndexOfFrom(_, _, _)
IndexOfFrom(s, pat, i) ==
    IF i + Len(pat) > Len(s) THEN -1
    ELSE IF StartsWithAt(s, pat, i) THEN i
    ELSE IndexOfFrom(s, pat, i + 1)

\* s.includes(pat)
Includes(s, pat) == IndexOfFrom(s, pat, 0) >= 0

\* s.lastIndexOf(pat): the greatest position where pat occurs, or -1
LastIndexOf(s, pat) == MaxOrNone({i \in 0..Len(s) : StartsWithAt(s, pat, i)})

\* The end (exclusive) of the maximal run of characters of class cls that
\* starts at position i: what a greedy cls* consumes from i.
RECURSIVE RunEnd(_, _, _)
RunEnd(s, i, cls) ==
    IF i < Len(s) /\ At(s, i) \in cls THEN RunEnd(s, i + 1, cls) ELSE i

\* The end of the maximal run of characters NOT in cls that starts at i.
RECURSIVE RunEndNot(_, _, _)
RunEndNot(s, i, cls) ==
    IF i < Len(s) /\ At(s, i) \notin cls THEN RunEndNot(s, i + 1, cls) ELSE i

\* s.trimEnd()
RECURSIVE TrimEnd(_)
TrimEnd(s) ==
    IF s # <<>> /\ s[Len(s)] \in WhiteSpace
    THEN TrimEnd(SubSeq(s, 1, Len(s) - 1))
    ELSE s

\* s.trimStart()
TrimStart(s) == SliceFrom(s, RunEnd(s, 0, WhiteSpace))

\* s.trim()
Trim(s) == TrimEnd(TrimStart(s))

\* list.join(sep)
RECURSIVE Join(_, _)
Join(list, sep) ==
    IF list = <<>> THEN <<>>
    ELSE IF Len(list) = 1 THEN list[1]
    ELSE list[1] \o sep \o Join(Tail(list), sep)

\* s.split(sep) for a non-empty string separator
RECURSIVE SplitOn(_, _)
SplitAt(s, sep, i) ==
    IF i < 0 THEN <<s>>
    ELSE <<Slice(s, 0, i)>> \o SplitOn(SliceFrom(s, i + Len(sep)), sep)

SplitOn(s, sep) == SplitAt(s, sep, IndexOfFrom(s, sep, 0))

\* s.replace(pat, rep) for a string pattern: the first occurrence only.
\* (rep holds no "$", so no replacement pattern applies.)
ReplaceAt(s, pat, rep, i) ==
    IF i < 0 THEN s
    ELSE Slice(s, 0, i) \o rep \o SliceFrom(s, i + Len(pat))

ReplaceFirst(s, pat, rep) == ReplaceAt(s, pat, rep, IndexOfFrom(s, pat, 0))

NonEmpty(c) == c # <<>>

\* list.filter(Boolean) on a list of strings: the non-empty ones, in order
FilterNonEmpty(list) == SelectSeq(list, NonEmpty)

DigitChars == <<"0", "1", "2", "3", "4", "5", "6", "7", "8", "9">>

\* The decimal digits of n >= 0, as a template literal writes them
RECURSIVE DecimalStr(_)
DecimalStr(n) ==
    IF n < 10 THEN <<DigitChars[n + 1]>>
    ELSE DecimalStr(n \div 10) \o <<DigitChars[(n % 10) + 1]>>

\* ------------------------------------------------------------------------
\* Program constants
\* ------------------------------------------------------------------------

TELEGRAM_MAX_LENGTH == 4096

FENCE_PLACEHOLDER_PREFIX == <<Nul, "F", "E", "N", "C", "E">>

FENCE_PLACEHOLDER_SUFFIX == <<Nul>>

\* The look-ahead slack of nextSafeBreak's segment
SEGMENT_SLACK == 200

\* The longest span the bold pattern accepts between its two ** marks
BOLD_MAX_SPAN == 80

\* ------------------------------------------------------------------------
\* escapeHtml (src/index.mjs 30-35)
\* ------------------------------------------------------------------------

\* One character through the three replacements, applied in the source's
\* order: & first, so the & of a produced &lt; or &gt; is not escaped again.
EscapeChar(c) ==
    IF c = "&" THEN <<"&", "a", "m", "p", ";">>
    ELSE IF c = "<" THEN <<"&", "l", "t", ";">>
    ELSE IF c = ">" THEN <<"&", "g", "t", ";">>
    ELSE <<c>>

RECURSIVE escapeHtml(_)
escapeHtml(text) ==
    IF text = <<>> THEN <<>> ELSE EscapeChar(Head(text)) \o escapeHtml(Tail(text))

\* ------------------------------------------------------------------------
\* Fence Guard (src/index.mjs 43-74)
\* ------------------------------------------------------------------------

Backticks == <<BackTick, BackTick, BackTick>>

Tildes == <<"~", "~", "~">>

NoMatch == [end |-> -1]

\* The tail (white space, then a multiline $) of the fence pattern tried
\* at position e0, right after the closing delimiter: the white space is
\* taken greedily and given back until the $ holds (the end of the text,
\* or a line terminator next).  The end of the match, or -1.
ClosingEnd(s, e0) ==
    MaxOrNone({e \in e0..RunEnd(s, e0, WhiteSpace) :
                  e = Len(s) \/ At(s, e) \in LineTerminators})

\* The lazy body and the back-reference: the least q >= from where the
\* delimiter occurs and the tail of the pattern matches; -1 when none.
RECURSIVE ClosingFenceFrom(_, _, _)
ClosingFenceAt(s, fence, q) ==
    IF q < 0 THEN -1
    ELSE IF ClosingEnd(s, q + 3) >= 0 THEN q
    ELSE ClosingFenceFrom(s, fence, q + 1)

ClosingFenceFrom(s, fence, from) == ClosingFenceAt(s, fence, IndexOfFrom(s, fence, from))

\* The delimiter that stands at position p, or the empty string
FenceAt(s, p) ==
    IF StartsWithAt(s, Backticks, p) THEN Backticks
    ELSE IF StartsWithAt(s, Tildes, p) THEN Tildes
    ELSE <<>>

\* The match whose delimiter, language tag and closing delimiter are known:
\* the tag ends at langEnd, the closing delimiter stands at q, the match
\* ends at end
FenceMatchRecord(s, p, fence, langEnd, q, end) ==
    IF q < 0 THEN NoMatch
    ELSE [end       |-> end,
          index     |-> p,
          fenceType |-> fence,
          lang      |-> Slice(s, p + 3, langEnd),
          body      |-> Slice(s, langEnd + 1, q),
          all       |-> Slice(s, p, end)]

FenceMatchClosing(s, p, fence, langEnd, q) ==
    FenceMatchRecord(s, p, fence, langEnd, q, ClosingEnd(s, q + 3))

FenceMatchLang(s, p, fence, langEnd) ==
    IF fence = <<>> THEN NoMatch
    ELSE IF ~(langEnd < Len(s) /\ At(s, langEnd) = "\n") THEN NoMatch
    ELSE FenceMatchClosing(s, p, fence, langEnd, ClosingFenceFrom(s, fence, langEnd + 1))

\* The fence pattern of line 46 tried at position p: one of the two
\* delimiters, a greedy run of word characters (the language tag), a
\* newline, the lazy body, the same delimiter again, and the tail.
FenceMatchAt(s, p) == FenceMatchLang(s, p, FenceAt(s, p), RunEnd(s, p + 3, WordChars))

\* The re.exec loop (lines 49-52): the matches from position p on, leftmost
\* first, each search resuming at the end of the previous match.
RECURSIVE FenceMatches(_, _)
FenceMatchesStep(s, p, m) ==
    IF m.end < 0 THEN FenceMatches(s, p + 1)
    ELSE <<m>> \o FenceMatches(s, m.end)

FenceMatches(s, p) ==
    IF p >= Len(s) THEN <<>> ELSE FenceMatchesStep(s, p, FenceMatchAt(s, p))

Placeholder(i) == FENCE_PLACEHOLDER_PREFIX \o DecimalStr(i) \o FENCE_PLACEHOLDER_SUFFIX

\* Lines 53-57: out.replace(matches[i][0], placeholder), i = 0, 1, ...
RECURSIVE ReplaceMatches(_, _, _)
ReplaceMatches(out, matches, i) ==
    IF i >= Len(matches) THEN out
    ELSE ReplaceMatches(ReplaceFirst(out, matches[i + 1].all, Placeholder(i)), matches, i + 1)

\* Lines 51 and 58: the blocks and the text, from the matches
ExtractedFrom(text, matches) ==
    [text   |-> ReplaceMatches(text, matches, 0),
     blocks |-> [i \in 1..Len(matches) |->
                    [lang      |-> matches[i].lang,
                     body      |-> matches[i].body,
                     fenceType |-> matches[i].fenceType]]]

extractFencedBlocks(text) == ExtractedFrom(text, FenceMatches(text, 0))

PreCodeOpen == <<"<", "p", "r", "e", ">", "<", "c", "o", "d", "e">>

PreCodeClose == <<"<", "/", "c", "o", "d", "e", ">", "<", "/", "p", "r", "e", ">">>

\* Line 67: the language tag as the replacement writes it
LangSuffix(block) == IF block.lang # <<>> THEN <<" ">> \o block.lang ELSE <<>>

\* The replacement text of one block (lines 65-70)
FenceReplacement(block, toHtml) ==
    IF toHtml
    THEN PreCodeOpen \o LangSuffix(block) \o <<">">> \o escapeHtml(block.body) \o PreCodeClose
    ELSE block.fenceType \o LangSuffix(block) \o <<"\n">> \o block.body \o <<"\n">>
         \o block.fenceType \o <<"\n">>

\* Line 71: out.split(placeholder).join(replacement), i = 0, 1, ...
RECURSIVE RestoreFrom(_, _, _, _)
RestoreFrom(out, blocks, toHtml, i) ==
    IF i >= Len(blocks) THEN out
    ELSE RestoreFrom(Join(SplitOn(out, Placeholder(i)), FenceReplacement(blocks[i + 1], toHtml)),
                     blocks, toHtml, i + 1)

restoreFencedBlocks(text, blocks, toHtml) == RestoreFrom(text, blocks, toHtml, 0)

\* ------------------------------------------------------------------------
\* Table Rewriter and Whitespace Normalizer (src/index.mjs 76-143)
\* ------------------------------------------------------------------------

\* The characters a separator line may hold between two pipes
SeparatorChars == WhiteSpace \cup {"-", ":"}

\* The positions of the pipes of a line
PipePositions(line) == {i \in 0..(Len(line) - 1) : At(line, i) = "|"}

\* A line that starts with a pipe and whose last pipe stands at last
SeparatorShape(line, last) ==
    /\ last >= 1
    /\ At(line, 0) = "|"
    /\ \A i \in 0..(last - 1) :
          /\ At(line, i) \in SeparatorChars \cup {"|"}
          /\ At(line, i) = "|" => At(line, i + 1) # "|"
    /\ \A i \in (last + 1)..(Len(line) - 1) : At(line, i) \in WhiteSpace

\* TABLE_SEPARATOR_RE.test(line) (line 76): one or more groups of a pipe
\* followed by one or more separator characters, then a pipe, then white
\* space only up to the end of the string.  Read off the pattern: the line
\* starts with a pipe, holds at least two, every two consecutive pipes have
\* one or more separator characters and nothing else between them, and
\* only white space follows the last one.
TABLE_SEPARATOR_RE(line) == SeparatorShape(line, MaxOrNone(PipePositions(line)))

\* [f(x) for x in list]
MapSeq(list, f(_)) == [i \in 1..Len(list) |-> f(list[i])]

\* .replace(/^\|/, "") of line 79
StripLeadingPipe(t) == IF t # <<>> /\ t[1] = "|" THEN Tail(t) ELSE t

\* .replace(/\|$/, "") of line 79
StripTrailingPipe(t) == IF t # <<>> /\ t[Len(t)] = "|" THEN SubSeq(t, 1, Len(t) - 1) ELSE t

\* parseRow (lines 78-81)
parseRow(line) ==
    MapSeq(SplitOn(StripTrailingPipe(StripLeadingPipe(Trim(line))), <<"|">>), Trim)

\* lines.findIndex((l, i) => i > 0 && TABLE_SEPARATOR_RE.test(l)), 0-based
FindSeparatorIndex(lines) ==
    MinOrNone({i \in 1..(Len(lines) - 1) : TABLE_SEPARATOR_RE(lines[i + 1])})

HasPipe(l) == Includes(l, <<"|">>)

\* lines.slice(from).filter((l) => l.includes("|"))
DataLines(lines, from) == SelectSeq(SubSeq(lines, from + 1, Len(lines)), HasPipe)

\* Line 100: an empty cell is shown as an em dash
DisplayCell(c) == IF c = <<>> THEN <<EmDash>> ELSE c

\* A separator that would put a pipe between the cells
CellSeparatorPipe == <<" ", "|", " ">>

CellSeparator == <<" ", MidDot, " ">>

\* Lines 101-106: one bullet line, from the headers and the displayed cells
BulletFrom(headers, display) ==
    IF Len(headers) = Len(display)
    THEN <<Bullet, " ">> \o Join([i \in 1..Len(headers) |->
                                     headers[i] \o <<":", " ">> \o display[i]], CellSeparator)
    ELSE <<Bullet, " ">> \o Join(display, CellSeparator)

\* Lines 99-106
BulletLine(headers, row) == BulletFrom(headers, MapSeq(parseRow(row), DisplayCell))

\* Lines 95-108
BulletsFrom(headers, dataLines) ==
    Join([i \in 1..Len(dataLines) |-> BulletLine(headers, dataLines[i])], <<"\n">>)

\* Lines 92-108, the separator found at sepIdx
TableAfterSeparator(block, lines, dataLines) ==
    IF Len(dataLines) = 0 THEN block
    ELSE BulletsFrom(parseRow(lines[1]), dataLines)

\* Lines 85-108
TableFromLines(block, lines, sepIdx) ==
    IF Len(lines) < 3 THEN block
    ELSE IF ~HasPipe(lines[1]) THEN block
    ELSE IF sepIdx < 1 THEN block
    ELSE TableAfterSeparator(block, lines, DataLines(lines, sepIdx + 1))

TableFromTrimmedLines(block, lines) == TableFromLines(block, lines, FindSeparatorIndex(lines))

\* tableToBullets (lines 83-109)
tableToBullets(block) == TableFromTrimmedLines(block, MapSeq(SplitOn(block, <<"\n">>), Trim))

\* Lines 116-124
ProcessLines(trimmed, lines) ==
    IF Len(lines) < 3 THEN trimmed
    ELSE IF ~HasPipe(lines[1]) THEN trimmed
    ELSE IF FindSeparatorIndex(lines) # 1 THEN trimmed
    ELSE IF Len(DataLines(lines, 2)) = 0 THEN trimmed
    ELSE tableToBullets(trimmed)

\* Lines 113-124
ProcessTrimmed(trimmed) ==
    IF trimmed = <<>> THEN <<>> ELSE ProcessLines(trimmed, SplitOn(trimmed, <<"\n">>))

\* processBlock (lines 111-125)
processBlock(block) == ProcessTrimmed(Trim(block))

\* s.split(pat).join(rep) and s.replace(/pat/g, rep) for a literal pat
ReplaceAll(s, pat, rep) == Join(SplitOn(s, pat), rep)

\* .replace(/\r\n/g, "\n").replace(/\r/g, "\n") (lines 129-130)
UnifyLineEndings(text) == ReplaceAll(ReplaceAll(text, <<"\r", "\n">>, <<"\n">>), <<"\r">>, <<"\n">>)

\* .replace(/\n{3,}/g, "\n\n") (line 131): every maximal run of three or
\* more newlines becomes two; r is where the run of newlines at the head
\* of the text ends
RECURSIVE CollapseNewlines(_)
CollapseRun(text, r) ==
    IF r >= 3 THEN <<"\n", "\n">> \o CollapseNewlines(SliceFrom(text, r))
    ELSE IF r >= 1 THEN Slice(text, 0, r) \o CollapseNewlines(SliceFrom(text, r))
    ELSE <<Head(text)>> \o CollapseNewlines(Tail(text))

CollapseNewlines(text) ==
    IF text = <<>> THEN <<>> ELSE CollapseRun(text, RunEnd(text, 0, {"\n"}))

\* normalizeWhitespace (lines 127-136)
normalizeWhitespace(text) ==
    Trim(Join(MapSeq(SplitOn(CollapseNewlines(UnifyLineEndings(text)), <<"\n">>), TrimEnd),
              <<"\n">>))

\* The pattern of line 140 tried at position p, where a newline stands: the
\* greedy white space after it is given back until a newline ends the
\* match.  The end of the match, or -1.
BlankLineEnd(s, p) ==
    MaxOrNone({e \in (p + 2)..RunEnd(s, p + 1, WhiteSpace) : At(s, e - 1) = "\n"})

\* normalized.split(/\n\s*\n/) (line 140): from is where the current piece
\* starts, p the position the search has reached, e the end of the match
\* tried at p
RECURSIVE SplitParagraphs(_, _, _)
SplitParagraphsAt(s, from, p, e) ==
    IF At(s, p) = "\n" /\ e >= 0
    THEN <<Slice(s, from, p)>> \o SplitParagraphs(s, e, e)
    ELSE SplitParagraphs(s, from, p + 1)

SplitParagraphs(s, from, p) ==
    IF p >= Len(s) THEN <<SliceFrom(s, from)>>
    ELSE SplitParagraphsAt(s, from, p, BlankLineEnd(s, p))

\* convertTablesToBullets (lines 138-143)
convertTablesToBullets(text) ==
    Join(FilterNonEmpty(MapSeq(SplitParagraphs(normalizeWhitespace(text), 0, 0), processBlock)),
         <<"\n", "\n">>)

\* ------------------------------------------------------------------------
\* Boundary-Safe Chunker (src/index.mjs 145-192)
\* ------------------------------------------------------------------------

\* An entity body that ends at run (exclusive) and started at from: the
\* end of the entity when the body is not empty and a semicolon follows
EntityClose(s, from, run) ==
    IF run > from /\ StartsWithAt(s, <<";">>, run) THEN run + 1 ELSE -1

\* entityRe (line 153) tried at position p: an ampersand, then a number
\* sign and decimal digits, or a number sign, x and hexadecimal digits, or
\* word characters, then a semicolon; the alternatives in this order.  The
\* end of the match, or -1.
EntityEndAt(s, p) ==
    IF ~(p < Len(s) /\ At(s, p) = "&") THEN -1
    ELSE IF StartsWithAt(s, <<"#">>, p + 1)
            /\ EntityClose(s, p + 2, RunEnd(s, p + 2, Digits)) >= 0
         THEN RunEnd(s, p + 2, Digits) + 1
    ELSE IF StartsWithAt(s, <<"#", "x">>, p + 1)
            /\ EntityClose(s, p + 3, RunEnd(s, p + 3, HexDigits)) >= 0
         THEN RunEnd(s, p + 3, HexDigits) + 1
    ELSE EntityClose(s, p + 1, RunEnd(s, p + 1, WordChars))

\* A tag opened at p whose first > after p stands at q
TagClose(p, q) == IF q >= p + 2 THEN q + 1 ELSE -1

\* tagRe (line 160) tried at position p: <, one or more characters other
\* than >, then >.
TagEndAt(s, p) ==
    IF ~(p < Len(s) /\ At(s, p) = "<") THEN -1
    ELSE TagClose(p, IndexOfFrom(s, <<">">>, p + 1))

PreCloseTag == <<"<", "/", "p", "r", "e", ">">>

PreClose(q) == IF q < 0 THEN -1 ELSE q + 6

\* preRe (line 166) tried at position p: <pre, a white space or >, the
\* lazy content, then </pre>.
PreEndAt(s, p) ==
    IF ~StartsWithAt(s, <<"<", "p", "r", "e">>, p) THEN -1
    ELSE IF ~(p + 4 < Len(s) /\ At(s, p + 4) \in WhiteSpace \cup {">"}) THEN -1
    ELSE PreClose(IndexOfFrom(s, PreCloseTag, p + 5))

UnitKinds == {"entity", "tag", "pre"}

UnitEndAt(kind, s, p) ==
    IF kind = "entity" THEN EntityEndAt(s, p)
    ELSE IF kind = "tag" THEN TagEndAt(s, p)
    ELSE PreEndAt(s, p)

\* The exec loop of a global pattern over s (lines 155, 161, 167): the set
\* of <<index, end>> of its matches, leftmost first, none overlapping; e is
\* the end of the match tried at p
RECURSIVE UnitMatches(_, _, _)
UnitMatchesAt(kind, s, p, e) ==
    IF e < 0 THEN UnitMatches(kind, s, p + 1)
    ELSE {<<p, e>>} \cup UnitMatches(kind, s, e)

UnitMatches(kind, s, p) ==
    IF p >= Len(s) THEN {} ELSE UnitMatchesAt(kind, s, p, UnitEndAt(kind, s, p))

\* The ends, in the text, of all the matches of the three patterns in the
\* segment that starts at start
SegmentEnds(segment, start) ==
    {start + m[2] : m \in UNION {UnitMatches(k, segment, 0) : k \in UnitKinds}}

\* Lines 157, 163, 169: best, which starts at limit = start + maxLen, moves
\* to an end only when that end is beyond limit and before best
BestOf(ends, limit) ==
    IF {e \in ends : e > limit /\ e < limit} = {} THEN limit
    ELSE MinOrNone({e \in ends : e > limit /\ e < limit})

\* Lines 150-170
StructuralBest(text, start, maxLen) ==
    BestOf(SegmentEnds(Slice(text, start, start + maxLen + SEGMENT_SLACK), start),
           start + maxLen)

\* A break that would not move from start
BreakAtStart(maxLen, lastPara, lastLine) == 0

\* Line 174
BreakAt(maxLen, lastPara, lastLine) ==
    IF 2 * lastPara > maxLen THEN lastPara + 1
    ELSE IF 2 * lastLine > maxLen THEN lastLine + 1
    ELSE maxLen

\* Lines 147-148 and 172-175, from slice (line 146) and best (lines
\* 150-170).  best is not read: the value returned is computed from
\* lastPara, lastLine and maxLen alone.
BreakOfSlice(start, maxLen, slice, best) ==
    IF Len(slice) < maxLen THEN start + Len(slice)
    ELSE start + BreakAt(maxLen, LastIndexOf(slice, <<"\n", "\n">>), LastIndexOf(slice, <<"\n">>))

\* nextSafeBreak (lines 145-176)
nextSafeBreak(text, start, maxLen) ==
    BreakOfSlice(start, maxLen, Slice(text, start, start + maxLen),
                 StructuralBest(text, start, maxLen))

\* A slice that would stop one character before breakAt
ChunkOfShort(text, start, breakAt) == Trim(Slice(text, start, breakAt - 1))

\* The chunk pushed by one iteration (line 186)
ChunkOf(text, start, breakAt) == Trim(Slice(text, start, breakAt))

\* The inner loop of line 188: start moves over newlines and spaces
SkipBreakSpace(text, start) == RunEnd(text, start, {"\n", " "})

\* ------------------------------------------------------------------------
\* Conservative HTML renderer (src/index.mjs 194-200)
\* ------------------------------------------------------------------------

BOpen == <<"<", "b", ">">>

BClose == <<"<", "/", "b", ">">>

CodeOpen == <<"<", "c", "o", "d", "e", ">">>

CodeClose == <<"<", "/", "c", "o", "d", "e", ">">>

\* The heading pattern of line 196 tried at position p (multiline): the
\* start of a line, ##, one or more white space characters (greedy, given
\* back while the rest cannot match), one or more characters of the line,
\* the end of the line.  Where the captured text starts, or -1.
HeadingTextAt(s, p) ==
    IF ~(p = 0 \/ At(s, p - 1) \in LineTerminators) THEN -1
    ELSE IF ~StartsWithAt(s, <<"#", "#">>, p) THEN -1
    ELSE MaxOrNone({e \in (p + 3)..RunEnd(s, p + 2, WhiteSpace) :
                       e < Len(s) /\ At(s, e) \notin LineTerminators})

\* The replacement of line 196 from position p on; t is where the text of
\* the heading tried at p starts (-1: no heading at p)
RECURSIVE ReplaceHeadings(_, _)
HeadingReplaced(s, t, e) == BOpen \o Slice(s, t, e) \o BClose \o ReplaceHeadings(s, e)

ReplaceHeadingAt(s, p, t) ==
    IF t < 0 THEN <<At(s, p)>> \o ReplaceHeadings(s, p + 1)
    ELSE HeadingReplaced(s, t, RunEndNot(s, t, LineTerminators))

ReplaceHeadings(s, p) ==
    IF p >= Len(s) THEN <<>> ELSE ReplaceHeadingAt(s, p, HeadingTextAt(s, p))

\* A span opened by ** at p whose run of characters other than * and
\* newline ends at r
BoldSpanClose(s, p, r) ==
    IF r - (p + 2) >= 1 /\ r - (p + 2) <= BOLD_MAX_SPAN /\ StartsWithAt(s, <<"*", "*">>, r)
    THEN r
    ELSE -1

\* The bold pattern of line 197 tried at position p: **, between 1 and 80
\* characters other than * and newline, **.  The end of the span, or -1.
BoldSpanEndAt(s, p) ==
    IF ~StartsWithAt(s, <<"*", "*">>, p) THEN -1
    ELSE BoldSpanClose(s, p, RunEndNot(s, p + 2, {"*", "\n"}))

RECURSIVE ReplaceBold(_, _)
ReplaceBoldAt(s, p, r) ==
    IF r < 0 THEN <<At(s, p)>> \o ReplaceBold(s, p + 1)
    ELSE BOpen \o Slice(s, p + 2, r) \o BClose \o ReplaceBold(s, r + 2)

ReplaceBold(s, p) ==
    IF p >= Len(s) THEN <<>> ELSE ReplaceBoldAt(s, p, BoldSpanEndAt(s, p))

\* A span opened by a grave accent at p whose run of other characters ends
\* at r
CodeSpanClose(s, p, r) ==
    IF ~(r > p + 1 /\ r < Len(s)) THEN -1
    ELSE IF r + 1 < Len(s) /\ At(s, r + 1) \in WordChars THEN -1
    ELSE r

\* The inline code pattern of line 198 tried at position p: a grave accent
\* not preceded by a word character, one or more characters other than a
\* grave accent, a grave accent not followed by a word character.  The
\* position of the closing accent, or -1.
CodeSpanEndAt(s, p) ==
    IF ~(p < Len(s) /\ At(s, p) = BackTick) THEN -1
    ELSE IF p > 0 /\ At(s, p - 1) \in WordChars THEN -1
    ELSE CodeSpanClose(s, p, RunEndNot(s, p + 1, {BackTick}))

RECURSIVE ReplaceCode(_, _)
ReplaceCodeAt(s, p, r) ==
    IF r < 0 THEN <<At(s, p)>> \o ReplaceCode(s, p + 1)
    ELSE CodeOpen \o Slice(s, p + 1, r) \o CodeClose \o ReplaceCode(s, r + 1)

ReplaceCode(s, p) ==
    IF p >= Len(s) THEN <<>> ELSE ReplaceCodeAt(s, p, CodeSpanEndAt(s, p))

markdownToTelegramHtmlConservative(text) ==
    ReplaceCode(ReplaceBold(ReplaceHeadings(escapeHtml(text), 0), 0), 0)

\* Lines 227-228, from the chunk with its fences extracted
RenderExtracted(ex) ==
    restoreFencedBlocks(markdownToTelegramHtmlConservative(ex.text), ex.blocks, TRUE)

\* The per-chunk rendering of lines 225-229
RenderChunk(chunk) == RenderExtracted(extractFencedBlocks(chunk))

\* Lines 220-221, from the text with its fences extracted
RestoreConverted(ex) ==
    restoreFencedBlocks(convertTablesToBullets(ex.text), ex.blocks, FALSE)

\* Lines 219-221: fences out, tables and white space, fences back in
PrepareContent(text) == RestoreConverted(extractFencedBlocks(text))

\* ------------------------------------------------------------------------
\* splitChunksSafe and preprocess as functions (src/index.mjs 178-234)
\* ------------------------------------------------------------------------

\* Lines 186-188, from the loop state st = [start, chunks] and breakAt
AfterBreak(text, st, breakAt) ==
    [start   |-> SkipBreakSpace(text, breakAt),
     chunks  |-> Append(st.chunks, ChunkOf(text, st.start, breakAt)),
     breakAt |-> breakAt]

\* One iteration of the loop of lines 184-189
SplitIteration(text, maxLen, st) ==
    AfterBreak(text, st, nextSafeBreak(text, st.start, maxLen))

RECURSIVE SplitLoop(_, _, _)
SplitLoop(text, maxLen, st) ==
    IF st.start < Len(text) THEN SplitLoop(text, maxLen, SplitIteration(text, maxLen, st))
    ELSE st.chunks

splitChunksSafe(text, maxLen) ==
    IF Len(text) <= maxLen THEN <<text>>
    ELSE FilterNonEmpty(SplitLoop(text, maxLen, [start |-> 0, chunks |-> <<>>]))

Undefined == "undefined"

Null == "null"

\* Line 215: style ?? (toHtml ? "telegramHtml" : "telegramPlain")
ResolveStyle(o) ==
    IF o.style # Undefined THEN o.style
    ELSE IF o.toHtml THEN "telegramHtml" ELSE "telegramPlain"

IsHtml(o) == ResolveStyle(o) = "telegramHtml"

\* Lines 224-233: the returned record, from the chunks of line 223
PipelineResult(o, chs) ==
    IF IsHtml(o) THEN [chunks |-> MapSeq(chs, RenderChunk), parseMode |-> "HTML"]
    ELSE [chunks |-> chs, parseMode |-> Null]

\* Line 223
ChunksOf(content, o) ==
    IF o.split THEN splitChunksSafe(content, o.maxChunkLength) ELSE <<content>>

\* preprocess(text, options) for a string text
preprocess(text, o) == PipelineResult(o, ChunksOf(PrepareContent(text), o))

\* ------------------------------------------------------------------------
\* Bounds and inputs
\* ------------------------------------------------------------------------

\* The most pieces an input text is put together from
MaxTokens == 4

\* The largest maxChunkLength tried (the least is 1), beside the default
MaxChunkLen == 5

\* The pieces of the input texts of Spec
Tokens ==
    {<<"a">>, <<" ">>, <<"\n">>, <<"\t">>,
     <<"&", "l", "t", ";">>,
     <<"<", "b", ">">>}

RECURSIVE Flatten(_)
Flatten(list) == IF list = <<>> THEN <<>> ELSE Head(list) \o Flatten(Tail(list))

Texts == {Flatten(ts) : ts \in UNION {[1..n -> Tokens] : n \in 0..MaxTokens}}

\* An input of preprocess: a string, or a value that is not one (line 217)
Inputs == {[isString |-> TRUE, str |-> t] : t \in Texts}
          \cup {[isString |-> FALSE, str |-> <<>>]}

PreprocessOptions ==
    {[style |-> st, toHtml |-> FALSE, maxChunkLength |-> m, split |-> TRUE] :
        st \in {"telegramPlain", "telegramHtml"}, m \in 1..MaxChunkLen}
    \cup {[style |-> Undefined, toHtml |-> h, maxChunkLength |-> TELEGRAM_MAX_LENGTH,
           split |-> sp] : h \in BOOLEAN, sp \in BOOLEAN}

\* The most pieces a text of SpecLive is put together from
MaxLiveTokens == 3

LiveInputs ==
    {[isString |-> TRUE, str |-> Flatten(ts)] :
        ts \in UNION {[1..n -> Tokens] : n \in 0..MaxLiveTokens}}
    \cup {[isString |-> FALSE, str |-> <<>>]}

\* The texts with a fenced block: a delimiter, with or without a language
\* tag, a body, the delimiter again, with or without text around
FenceBodies ==
    {<<"a">>,
     <<"|", "a", "|", "\n", "|", "-", "|", "\n", "|", "b", "|">>,
     <<"a", "\n", "\n", "\n", "\n", "b">>}

FenceTexts ==
    {before \o fence \o lang \o <<"\n">> \o body \o <<"\n">> \o fence \o after :
        before \in {<<>>, <<"x", "\n">>}, fence \in {Backticks, Tildes},
        lang \in {<<>>, <<"j", "s">>}, body \in FenceBodies,
        after \in {<<>>, <<"\n", "y">>}}

FenceInputs == {[isString |-> TRUE, str |-> t] : t \in FenceTexts}
               \cup {[isString |-> FALSE, str |-> <<>>]}

\* The most lines of a text of SpecTable
MaxTableLines == 4

\* The lines the texts of SpecTable are made of: header and data rows,
\* separator rows, a line without a pipe
TableLines ==
    {<<"|", "x", "|", "y", "|">>,
     <<"|", "-", "|", ":", "-", "|">>,
     <<"|", "1", "|", "|">>,
     <<"3", " ", "|", "4">>,
     <<"n", "o">>}

TableTexts ==
    {Join(ls, <<"\n">>) : ls \in UNION {[1..n -> TableLines] : n \in 2..MaxTableLines}}

TableInputs == {[isString |-> TRUE, str |-> t] : t \in TableTexts}
               \cup {[isString |-> FALSE, str |-> <<>>]}

\* The options of SpecTable: plain style, split on, the least and the
\* default maxChunkLength
TableOptions ==
    {o \in PreprocessOptions :
        /\ o.maxChunkLength \in {2, TELEGRAM_MAX_LENGTH}
        /\ o.split
        /\ ResolveStyle(o) = "telegramPlain"}


\* ------------------------------------------------------------------------
\* TelegramProxy (src/unnamed/part_000)
\* ------------------------------------------------------------------------

\* The value of a key that an options object does not hold
Absent == "absent"

\* The default chunkDelayMs (line 40)
DEFAULT_CHUNK_DELAY_MS == 300

\* The calls of sendMessage that a behaviour makes
CallIds == {"call1", "call2"}

\* The order in which the calls are made: the names of the calls are
\* interchangeable, so call1 is the one made first
CallOrder == [c \in CallIds |-> IF c = "call1" THEN 1 ELSE 2]

\* The largest maxChunkLength a wrapper is constructed with, beside the
\* default
MaxProxyChunkLen == 3

\* The most calls of forwarded client methods in a behaviour
MaxForwarded == 1

\* The texts passed to the wrapper's sendMessage
ProxyTexts ==
    {[isString |-> TRUE, str |-> <<"a", "&", "b", " ", "c", "d", " ", "e">>],
     [isString |-> TRUE, str |-> <<" ", "\n">>],
     [isString |-> FALSE, str |-> <<>>]}

\* The options passed to the wrapper's sendMessage: parse_mode is absent,
\* a mode or the empty string
CallerOptions ==
    {[parse_mode |-> Absent, reply_markup |-> "keyboard"],
     [parse_mode |-> "MarkdownV2", reply_markup |-> Absent],
     [parse_mode |-> "", reply_markup |-> Absent]}

ChatIds == {"chat"}

\* What a client's sendMessage may reject with
ClientErrors == {"ETELEGRAM"}

\* The names tried on the wrapper beside sendMessage, and their argument
MemberNames == {"sendPhoto", "enable", "disable"}

MemberArgs == {"arg"}

\* The members of the wrapper object: its own fields (lines 35-36), the
\* members of TelegramProxy.prototype (lines 33, 63, 95, 103) and those of
\* Object.prototype, all found by the in operator of line 49
WrapperMembers ==
    {"_client", "_options", "constructor", "sendMessage", "disable", "enable",
     "toString", "toLocaleString", "valueOf", "hasOwnProperty", "isPrototypeOf",
     "propertyIsEnumerable", "__proto__"}

\* The get trap without the bind of line 51
GetTrapUnbound(prop, methods) ==
    IF prop \in WrapperMembers THEN [owner |-> "wrapper", boundTo |-> "none"]
    ELSE IF prop \in methods THEN [owner |-> "client", boundTo |-> "none"]
    ELSE [owner |-> "none", boundTo |-> "none"]

\* The get trap (lines 48-52): whose member the wrapper hands out for prop,
\* and, for a function of the client, what it is bound to
GetTrap(prop, methods) ==
    IF prop \in WrapperMembers THEN [owner |-> "wrapper", boundTo |-> "none"]
    ELSE IF prop \in methods THEN [owner |-> "client", boundTo |-> "client"]
    ELSE [owner |-> "none", boundTo |-> "none"]

\* JavaScript's falsy values among those an option takes here
Falsy(v) == v \in {Absent, Undefined, Null, ""}

\* Lines 75-78
BaseOptions(opts, parseMode) ==
    IF ~Falsy(parseMode) /\ Falsy(opts.parse_mode)
    THEN [opts EXCEPT !.parse_mode = parseMode]
    ELSE opts

\* Line 64 without its test of enabled
BypassesBlankOnly(enabled, text) == ~text.isString \/ Trim(text.str) = <<>>

\* Line 64
Bypasses(enabled, text) == ~enabled \/ ~text.isString \/ Trim(text.str) = <<>>

\* Lines 68-72.  Line 21 imports the function under the name process, which
\* src/index.mjs does not export (its one export is preprocess, line 208);
\* the call is modelled as reaching preprocess, the function the wrapper is
\* written for.
PreprocessOf(text, po) ==
    preprocess(text.str, [style |-> po.style, toHtml |-> FALSE,
                          maxChunkLength |-> po.maxChunkLength, split |-> po.split])

IdleCall ==
    [pc |-> "idle", chatId |-> "none", text |-> [isString |-> FALSE, str |-> <<>>],
     options |-> [parse_mode |-> Absent, reply_markup |-> Absent],
     chunks |-> <<>>, baseOptions |-> [parse_mode |-> Absent, reply_markup |-> Absent],
     i |-> 0, responses |-> <<>>, pending |-> 0, error |-> "none",
     enabledAtCall |-> FALSE, setBy |-> "none"]

\* One call received by the client
LogEntry(method, args, thisArg, call) ==
    [method |-> method, args |-> args, thisArg |-> thisArg, call |-> call,
     outcome |-> "pending", error |-> "none"]

\* this._client.sendMessage(chatId, text, options) (lines 65 and 85)
ClientSend(chatId, text, opts, call) ==
    LogEntry("sendMessage", [chatId |-> chatId, text |-> text, options |-> opts], "client", call)

\* What the client resolves the k-th send it received with: a response
\* that names the send and carries its text, as that of the mock client of
\* src/test-proxy.mjs (lines 25-28) does
Response(log, k) == [message_id |-> k, text |-> log[k].args.text]

\* The options wrappers are constructed with (lines 36-43)
ProxyStyles ==
    {[style |-> "telegramHtml", maxChunkLength |-> MaxProxyChunkLen, chunkDelayMs |-> 0],
     [style |-> "telegramHtml", maxChunkLength |-> MaxProxyChunkLen,
      chunkDelayMs |-> DEFAULT_CHUNK_DELAY_MS],
     [style |-> "telegramPlain", maxChunkLength |-> TELEGRAM_MAX_LENGTH,
      chunkDelayMs |-> DEFAULT_CHUNK_DELAY_MS]}

ProxyOptionSets ==
    {[style |-> o.style, maxChunkLength |-> o.maxChunkLength, split |-> TRUE,
      chunkDelayMs |-> o.chunkDelayMs, enabled |-> en] :
        o \in ProxyStyles, en \in BOOLEAN}

VARIABLES
    input,      \* preprocess: the text argument
    options,    \* preprocess: the options argument
    pc,         \* preprocess: where the call stands
    content,    \* preprocess: content (line 220), the text of splitChunksSafe
    start,      \* splitChunksSafe: start
    chunks,     \* splitChunksSafe: chunks
    breaks,     \* splitChunksSafe: <<start, breakAt>> of every iteration so far
    result,     \* preprocess: the value returned
    proxyOptions,   \* TelegramProxy: this._options
    clientMethods,  \* the names of the methods of the client, this._client
    calls,          \* TelegramProxy.sendMessage: the state of each call
    clientLog,      \* the calls the client has received, in order
    forwarded,      \* the calls of other methods the client has received
    lastAccess,     \* the last member call made through the wrapper
    lastSet         \* what set proxyOptions.enabled last

pipelineVars == <<input, options, pc, content, start, chunks, breaks, result>>

proxyVars == <<proxyOptions, clientMethods, calls, clientLog, forwarded, lastAccess, lastSet>>

vars == <<pipelineVars, proxyVars>>

ProxyUnused ==
    /\ proxyOptions = [style |-> "telegramPlain", maxChunkLength |-> TELEGRAM_MAX_LENGTH,
                       split |-> TRUE, chunkDelayMs |-> DEFAULT_CHUNK_DELAY_MS,
                       enabled |-> TRUE]
    /\ clientMethods = {}
    /\ calls = [c \in CallIds |-> IdleCall]
    /\ clientLog = <<>>
    /\ forwarded = <<>>
    /\ lastAccess = [prop |-> "none", arg |-> "none"]
    /\ lastSet = "constructor"

NoResult == [chunks |-> <<>>, parseMode |-> Null]

InitWith(inputs, opts) ==
    /\ input \in inputs
    /\ options \in opts
    /\ pc = "start"
    /\ content = <<>>
    /\ start = 0
    /\ chunks = <<>>
    /\ breaks = <<>>
    /\ result = NoResult
    /\ ProxyUnused

Init == InitWith(Inputs, PreprocessOptions)

\* Line 217: a text that is not a string
PreprocessNonString ==
    /\ pc = "start"
    /\ ~input.isString
    /\ result' = [chunks |-> <<(<<>>)>>, parseMode |-> Null]
    /\ pc' = "done"
    /\ UNCHANGED <<input, options, content, start, chunks, breaks>>
    /\ UNCHANGED proxyVars

\* Lines 219-221: content is built
PreprocessContent ==
    /\ pc = "start"
    /\ input.isString
    /\ content' = PrepareContent(input.str)
    /\ pc' = "split"
    /\ UNCHANGED <<input, options, start, chunks, breaks, result>>
    /\ UNCHANGED proxyVars

\* Lines 223 and 179: split is off, or the content fits in one chunk
SplitWhole ==
    /\ pc = "split"
    /\ ~(options.split /\ Len(content) > options.maxChunkLength)
    /\ chunks' = <<content>>
    /\ pc' = "render"
    /\ UNCHANGED <<input, options, content, start, breaks, result>>
    /\ UNCHANGED proxyVars

\* Lines 223 and 179-182: the loop is entered
SplitEnter ==
    /\ pc = "split"
    /\ options.split /\ Len(content) > options.maxChunkLength
    /\ chunks' = <<>>
    /\ start' = 0
    /\ pc' = "loop"
    /\ UNCHANGED <<input, options, content, breaks, result>>
    /\ UNCHANGED proxyVars

\* The loop state after the iteration st: start, chunks, and the breakAt of
\* the iteration recorded with the start it was computed from
IterationDone(st) ==
    /\ start' = st.start
    /\ chunks' = st.chunks
    /\ breaks' = Append(breaks, <<start, st.breakAt>>)

\* Lines 184-189: one iteration
SplitStep ==
    /\ pc = "loop"
    /\ start < Len(content)
    /\ \E breakAt \in {nextSafeBreak(content, start, options.maxChunkLength)} :
           \E st \in {AfterBreak(content, [start |-> start, chunks |-> chunks], breakAt)} :
               IterationDone(st)
    /\ UNCHANGED <<input, options, pc, content, result>>
    /\ UNCHANGED proxyVars

\* Line 191: the loop is over
SplitEnd ==
    /\ pc = "loop"
    /\ start >= Len(content)
    /\ chunks' = FilterNonEmpty(chunks)
    /\ pc' = "render"
    /\ UNCHANGED <<input, options, content, start, breaks, result>>
    /\ UNCHANGED proxyVars

\* Lines 224-233
PreprocessReturn ==
    /\ pc = "render"
    /\ result' = PipelineResult(options, chunks)
    /\ pc' = "done"
    /\ UNCHANGED <<input, options, content, start, chunks, breaks>>
    /\ UNCHANGED proxyVars

Next ==
    \/ PreprocessNonString
    \/ PreprocessContent
    \/ SplitWhole
    \/ SplitEnter
    \/ SplitStep
    \/ SplitEnd
    \/ PreprocessReturn

Spec == Init /\ [][Next]_vars

\* splitIntoChunks is sequential code in which nothing waits: while the loop
\* of lines 184-189 has an iteration to run it runs it, and once it has none
\* the function goes on to line 191
InitLive == InitWith(LiveInputs, PreprocessOptions)

SpecLive == InitLive /\ [][Next]_vars /\ WF_vars(SplitStep) /\ WF_vars(SplitEnd)

\* preprocess over the texts with a fenced block
InitFence == InitWith(FenceInputs, PreprocessOptions)

SpecFence == InitFence /\ [][Next]_vars

\* preprocess over the texts made of table lines
InitTable == InitWith(TableInputs, TableOptions)

SpecTable == InitTable /\ [][Next]_vars

\* ------------------------------------------------------------------------
\* The wrapper's behaviours
\* ------------------------------------------------------------------------

PipelineUnused ==
    /\ input = [isString |-> FALSE, str |-> <<>>]
    /\ options = [style |-> Undefined, toHtml |-> FALSE,
                  maxChunkLength |-> TELEGRAM_MAX_LENGTH, split |-> TRUE]
    /\ pc = "unused"
    /\ content = <<>>
    /\ start = 0
    /\ chunks = <<>>
    /\ breaks = <<>>
    /\ result = NoResult

\* The constructor (lines 33-54), over a client with or without methods
\* named like members of the wrapper
InitProxy ==
    /\ PipelineUnused
    /\ proxyOptions \in ProxyOptionSets
    /\ clientMethods \in {{"sendMessage", "sendPhoto"},
                          {"sendMessage", "sendPhoto", "enable", "disable"}}
    /\ calls = [c \in CallIds |-> IdleCall]
    /\ clientLog = <<>>
    /\ forwarded = <<>>
    /\ lastAccess = [prop |-> "none", arg |-> "none"]
    /\ lastSet = "constructor"

\* The fields of a call that has just been made
Called(chatId, text, opts) ==
    [IdleCall EXCEPT !.chatId = chatId, !.text = text, !.options = opts,
                     !.enabledAtCall = proxyOptions.enabled, !.setBy = lastSet]

\* Lines 64-65: the wrapper is disabled, or the text is no string or blank
SendMessageBypass(c, chatId, text, opts) ==
    /\ calls[c].pc = "idle"
    /\ \A d \in CallIds : CallOrder[d] < CallOrder[c] => calls[d].pc # "idle"
    /\ Bypasses(proxyOptions.enabled, text)
    /\ clientLog' = Append(clientLog, ClientSend(chatId, text, opts, c))
    /\ calls' = [calls EXCEPT ![c] =
                    [Called(chatId, text, opts) EXCEPT
                        !.pc = "awaitBypass", !.pending = Len(clientLog) + 1]]
    /\ UNCHANGED <<proxyOptions, clientMethods, forwarded, lastAccess, lastSet>>
    /\ UNCHANGED pipelineVars

\* The chunks taken from the last one backwards
ChunkAtFromEnd(chs, i) == [isString |-> TRUE, str |-> chs[Len(chs) - i]]

\* chunks[i] of line 85, the text of a send
ChunkAt(chs, i) == [isString |-> TRUE, str |-> chs[i + 1]]

\* The call state when the loop of lines 81-87 sends chunk i
SendingChunk(call, i) ==
    [call EXCEPT !.pc = "awaitSend", !.i = i, !.pending = Len(clientLog) + 1]

\* Line 85, for chunk i (0-based) of call c
SendChunk(c, call, i) ==
    /\ clientLog' = Append(clientLog,
                           ClientSend(call.chatId, ChunkAt(call.chunks, i), call.baseOptions, c))
    /\ calls' = [calls EXCEPT ![c] = SendingChunk(call, i)]

\* Lines 68-85, from the result r of preprocess: the options are merged
\* and the first chunk is sent (or, with no chunk, the call returns)
StartPipeline(c, call, r) ==
    IF Len(r.chunks) = 0
    THEN /\ calls' = [calls EXCEPT ![c] = [call EXCEPT !.pc = "resolved"]]
         /\ UNCHANGED clientLog
    ELSE SendChunk(c, [call EXCEPT !.chunks = r.chunks,
                                   !.baseOptions = BaseOptions(call.options, r.parseMode)], 0)

\* Lines 64-85: the wrapper is enabled and the text is a non-blank string
SendMessagePipeline(c, chatId, text, opts) ==
    /\ calls[c].pc = "idle"
    /\ \A d \in CallIds : CallOrder[d] < CallOrder[c] => calls[d].pc # "idle"
    /\ ~Bypasses(proxyOptions.enabled, text)
    /\ StartPipeline(c, Called(chatId, text, opts), PreprocessOf(text, proxyOptions))
    /\ UNCHANGED <<proxyOptions, clientMethods, forwarded, lastAccess, lastSet>>
    /\ UNCHANGED pipelineVars

\* The log with the pending send of call c settled
Settled(c, outcome, error) ==
    [clientLog EXCEPT ![calls[c].pending] = [@ EXCEPT !.outcome = outcome, !.error = error]]

\* Line 65: the client's promise resolves; the wrapper returns [res]
BypassResolves(c) ==
    /\ calls[c].pc = "awaitBypass"
    /\ clientLog' = Settled(c, "resolved", "none")
    /\ calls' = [calls EXCEPT ![c] =
                    [@ EXCEPT !.pc = "resolved",
                              !.responses = <<Response(clientLog, calls[c].pending)>>]]
    /\ UNCHANGED <<proxyOptions, clientMethods, forwarded, lastAccess, lastSet>>
    /\ UNCHANGED pipelineVars

\* Lines 85-89 and 81: the client's promise for the last chunk resolves;
\* the wrapper returns responses
LastChunkResolves(c) ==
    /\ calls[c].pc = "awaitSend"
    /\ calls[c].i + 1 >= Len(calls[c].chunks)
    /\ clientLog' = Settled(c, "resolved", "none")
    /\ calls' = [calls EXCEPT ![c] =
                    [@ EXCEPT !.pc = "resolved", !.i = @ + 1,
                              !.responses = Append(@, Response(clientLog, calls[c].pending))]]
    /\ UNCHANGED <<proxyOptions, clientMethods, forwarded, lastAccess, lastSet>>
    /\ UNCHANGED pipelineVars

\* Lines 85-86 and 81-83: the client's promise for chunk i resolves, more
\* chunks are left and chunkDelayMs > 0: the wrapper sleeps
ChunkResolvesThenSleep(c) ==
    /\ calls[c].pc = "awaitSend"
    /\ calls[c].i + 1 < Len(calls[c].chunks)
    /\ proxyOptions.chunkDelayMs > 0
    /\ clientLog' = Settled(c, "resolved", "none")
    /\ calls' = [calls EXCEPT ![c] =
                    [@ EXCEPT !.pc = "sleeping", !.i = @ + 1,
                              !.responses = Append(@, Response(clientLog, calls[c].pending))]]
    /\ UNCHANGED <<proxyOptions, clientMethods, forwarded, lastAccess, lastSet>>
    /\ UNCHANGED pipelineVars

\* The call c with the response to the latest send the client received
PushedLatest(c) ==
    [calls[c] EXCEPT !.responses = Append(@, Response(clientLog, Len(clientLog)))]

\* The call c once the response to its pending send is pushed (line 86)
Pushed(c) ==
    [calls[c] EXCEPT !.responses = Append(@, Response(clientLog, calls[c].pending))]

\* Lines 85-86 and 81-85: the client's promise for chunk i resolves, more
\* chunks are left and chunkDelayMs is 0: the next chunk is sent at once
ChunkResolvesThenSend(c) ==
    /\ calls[c].pc = "awaitSend"
    /\ calls[c].i + 1 < Len(calls[c].chunks)
    /\ ~(proxyOptions.chunkDelayMs > 0)
    /\ clientLog' = Append(Settled(c, "resolved", "none"),
                           ClientSend(calls[c].chatId, ChunkAt(calls[c].chunks, calls[c].i + 1),
                                      calls[c].baseOptions, c))
    /\ calls' = [calls EXCEPT ![c] = SendingChunk(Pushed(c), calls[c].i + 1)]
    /\ UNCHANGED <<proxyOptions, clientMethods, forwarded, lastAccess, lastSet>>
    /\ UNCHANGED pipelineVars

\* Lines 83-85: the sleep is over and chunk i is sent
SleepElapses(c) ==
    /\ calls[c].pc = "sleeping"
    /\ SendChunk(c, calls[c], calls[c].i)
    /\ UNCHANGED <<proxyOptions, clientMethods, forwarded, lastAccess, lastSet>>
    /\ UNCHANGED pipelineVars

\* A rejection that would hide the client's error behind another one
PropagatedWrapped(err) == "wrapped"

\* What the wrapper's promise rejects with when the awaited promise of the
\* client rejects with err: no try or catch stands around lines 65 and 85
Propagated(err) == err

\* Lines 65 and 85: the client's promise rejects with err
ClientRejects(c, err) ==
    /\ calls[c].pc \in {"awaitBypass", "awaitSend"}
    /\ clientLog' = Settled(c, "rejected", err)
    /\ calls' = [calls EXCEPT ![c] = [@ EXCEPT !.pc = "rejected", !.error = Propagated(err)]]
    /\ UNCHANGED <<proxyOptions, clientMethods, forwarded, lastAccess, lastSet>>
    /\ UNCHANGED pipelineVars

\* disable() (lines 95-98), reached through the get trap
Disable ==
    /\ GetTrap("disable", clientMethods).owner = "wrapper"
    /\ proxyOptions' = [proxyOptions EXCEPT !.enabled = FALSE]
    /\ lastSet' = "disable"
    /\ lastAccess' = [prop |-> "disable", arg |-> "none"]
    /\ UNCHANGED <<clientMethods, calls, clientLog, forwarded>>
    /\ UNCHANGED pipelineVars

\* enable() (lines 103-106), reached through the get trap
Enable ==
    /\ GetTrap("enable", clientMethods).owner = "wrapper"
    /\ proxyOptions' = [proxyOptions EXCEPT !.enabled = TRUE]
    /\ lastSet' = "enable"
    /\ lastAccess' = [prop |-> "enable", arg |-> "none"]
    /\ UNCHANGED <<clientMethods, calls, clientLog, forwarded>>
    /\ UNCHANGED pipelineVars

\* wrapper[prop](arg) for a member the get trap takes from the client
\* (lines 50-51): the client's function, bound to the client, is called
ForwardMember(prop, arg) ==
    /\ Len(forwarded) < MaxForwarded
    /\ GetTrap(prop, clientMethods).owner = "client"
    /\ forwarded' = Append(forwarded,
                           [method |-> prop, arg |-> arg,
                            thisArg |-> GetTrap(prop, clientMethods).boundTo])
    /\ lastAccess' = [prop |-> prop, arg |-> arg]
    /\ UNCHANGED <<proxyOptions, clientMethods, calls, clientLog, lastSet>>
    /\ UNCHANGED pipelineVars

NextProxy ==
    \/ \E c \in CallIds, chatId \in ChatIds, text \in ProxyTexts, opts \in CallerOptions :
          \/ SendMessageBypass(c, chatId, text, opts)
          \/ SendMessagePipeline(c, chatId, text, opts)
    \/ \E c \in CallIds :
          \/ BypassResolves(c)
          \/ LastChunkResolves(c)
          \/ ChunkResolvesThenSleep(c)
          \/ ChunkResolvesThenSend(c)
          \/ SleepElapses(c)
          \/ \E err \in ClientErrors : ClientRejects(c, err)
    \/ Disable
    \/ Enable
    \/ \E prop \in MemberNames, arg \in MemberArgs : ForwardMember(prop, arg)

SpecProxy == InitProxy /\ [][NextProxy]_vars

\* ------------------------------------------------------------------------
\* Properties
\* ------------------------------------------------------------------------

\* The entities, tags and <pre> elements of text, as <<index, end>>
UnitSpans(text) == UNION {UnitMatches(k, text, 0) : k \in UnitKinds}

\* C1: when preprocess splits the text, no boundary between two consecutive
\* chunks falls strictly inside an HTML entity reference, an HTML tag or a
\* <pre> element of the pre-chunk text.
C1_NoBreakInsideUnit ==
    \A k \in 1..Len(breaks) : \A span \in UnitSpans(content) :
        ~(span[1] < breaks[k][2] /\ breaks[k][2] < span[2])

\* The sends of call c that the client has received, in order
SendsOf(c) == SelectSeq(clientLog, LAMBDA e : e.call = c)

\* The positions in clientLog of the sends of call c, in order
RECURSIVE PositionsOf(_, _)
PositionsOf(c, k) ==
    IF k > Len(clientLog) THEN <<>>
    ELSE IF clientLog[k].call = c THEN <<k>> \o PositionsOf(c, k + 1)
    ELSE PositionsOf(c, k + 1)

\* Call c has sent its first chunk and nothing has come back yet
FirstChunkOut(c) == calls[c].pc = "awaitSend" /\ calls[c].i = 0

\* The chunks of call c, when it has just sent the first one, are the
\* chunks preprocess makes of its text under the wrapper's options
ChunksPreprocessed(c) ==
    FirstChunkOut(c) => calls[c].chunks = PreprocessOf(calls[c].text, proxyOptions).chunks

\* Call c went through the pipeline: the wrapper was enabled and the text a
\* non-blank string
Piped(c) ==
    /\ calls[c].pc # "idle"
    /\ calls[c].enabledAtCall
    /\ calls[c].text.isString
    /\ Trim(calls[c].text.str) # <<>>

\* The sends of a piped call are its chunks, one each, in chunk order
SendsAreChunks(c, sends) ==
    /\ Len(sends) <= Len(calls[c].chunks)
    /\ \A k \in 1..Len(sends) :
          /\ sends[k].args.text = [isString |-> TRUE, str |-> calls[c].chunks[k]]
          /\ sends[k].args.chatId = calls[c].chatId

\* Only the last send of a call can be unsettled, every one before it has
\* resolved
OneInFlight(sends) == \A k \in 1..(Len(sends) - 1) : sends[k].outcome = "resolved"

\* The list returned holds the response to each chunk, in chunk order
ResponsesInOrder(c, sends, positions) ==
    calls[c].pc = "resolved" =>
        /\ Len(sends) = Len(calls[c].chunks)
        /\ Len(calls[c].responses) = Len(calls[c].chunks)
        /\ \A k \in 1..Len(sends) :
              /\ sends[k].outcome = "resolved"
              /\ calls[c].responses[k] =
                    [message_id |-> positions[k],
                     text |-> [isString |-> TRUE, str |-> calls[c].chunks[k]]]

\* C2: within one sendMessage call on enabled, non-blank text, the client's
\* sendMessage is invoked exactly once per chunk, in chunk order, with at
\* most one send in flight, and the list returned holds the client's
\* responses in the order of the chunks.
C2_OneSendPerChunkInOrder ==
    \A c \in CallIds :
        Piped(c) =>
            /\ ChunksPreprocessed(c)
            /\ SendsAreChunks(c, SendsOf(c))
            /\ OneInFlight(SendsOf(c))
            /\ ResponsesInOrder(c, SendsOf(c), PositionsOf(c, 1))

\* A piped call of three chunks has returned its three responses while the
\* other call's sends lie between its own
C2_Witness ==
    \E c \in CallIds, d \in CallIds :
        /\ c # d
        /\ Piped(c)
        /\ calls[c].pc = "resolved"
        /\ Len(calls[c].chunks) >= 2
        /\ Len(calls[c].responses) = Len(calls[c].chunks)
        /\ \E k \in 2..Len(clientLog) :
              /\ clientLog[k].call = c
              /\ clientLog[k - 1].call = d

\* C3: if the client's send rejects for chunk i, the wrapper's sendMessage
\* rejects with that same error; chunk i is attempted once, every chunk
\* before i has been sent once and stays sent, and no chunk after i is ever
\* sent.
C3_RejectionPropagates ==
    \A c \in CallIds :
        (Piped(c) /\ calls[c].pc = "rejected") =>
            /\ Len(SendsOf(c)) = calls[c].i + 1
            /\ SendsAreChunks(c, SendsOf(c))
            /\ OneInFlight(SendsOf(c))
            /\ SendsOf(c)[calls[c].i + 1].outcome = "rejected"
            /\ calls[c].error = SendsOf(c)[calls[c].i + 1].error
            /\ calls[c].error \in ClientErrors

\* The second chunk of three was rejected, and the other call has gone on
\* to its end since
C3_Witness ==
    \E c \in CallIds, d \in CallIds :
        /\ c # d
        /\ Piped(c)
        /\ calls[c].pc = "rejected"
        /\ calls[c].i = 1
        /\ Len(calls[c].chunks) > 2
        /\ calls[d].pc = "resolved"
        /\ clientLog[Len(clientLog)].call = d

\* The fenced text of a match of the fence pattern in the input: delimiter,
\* language tag, newline, body with its newline, delimiter
OriginalFence(m) == m.fenceType \o m.lang \o <<"\n">> \o m.body \o m.fenceType

\* C4: in plain style, a recognized fenced block is restored exactly as the
\* original fenced text: delimiter, optional language tag, newline, body,
\* newline, delimiter, the body unaltered.
C4_FenceRestoredExactly ==
    (input.isString /\ pc = "split") =>
        \A k \in 1..Len(FenceMatches(input.str, 0)) :
            Includes(content, OriginalFence(FenceMatches(input.str, 0)[k]))

\* The lines of the one paragraph of text, <<>> if text holds more or less
\* than one paragraph
ParagraphLines(paragraphs) ==
    IF Len(paragraphs) = 1 THEN SplitOn(Trim(paragraphs[1]), <<"\n">>) ELSE <<>>

\* A well-formed table: a header line with a pipe, a strict separator line
\* directly below it, a data row with a pipe
WellFormedTable(lines) ==
    /\ Len(lines) >= 3
    /\ HasPipe(lines[1])
    /\ TABLE_SEPARATOR_RE(lines[2])
    /\ \E k \in 3..Len(lines) : HasPipe(lines[k])

\* The data rows with a pipe
PipeRows(lines) == SelectSeq(SubSeq(lines, 3, Len(lines)), HasPipe)

\* The characters of the cells of a row
CellChars(row) == SelectSeq(row, LAMBDA ch : ch \notin WhiteSpace \cup {"|"})

\* a is what is left of b when some of b's characters are taken out
RECURSIVE IsSubsequence(_, _)
IsSubsequence(a, b) ==
    IF a = <<>> THEN TRUE
    ELSE IF b = <<>> THEN FALSE
    ELSE IF Head(a) = Head(b) THEN IsSubsequence(Tail(a), Tail(b))
    ELSE IsSubsequence(a, Tail(b))

\* out holds one bullet line for each row, in the order of the rows
BulletPerRow(out, rows) ==
    /\ Len(out) = Len(rows)
    /\ \A k \in 1..Len(rows) :
          /\ StartsWithAt(out[k], <<Bullet, " ">>, 0)
          /\ IsSubsequence(CellChars(rows[k]), out[k])

TableRewritten(lines) ==
    WellFormedTable(lines) =>
        /\ ~Includes(content, <<"|">>)
        /\ BulletPerRow(SplitOn(content, <<"\n">>), PipeRows(lines))

\* C5: the rewrite of a well-formed markdown table paragraph holds no pipe
\* character and consists of exactly one bullet line per data row with a
\* pipe, in the rows' order.
C5_TableBecomesBullets ==
    (input.isString /\ pc # "start") =>
        TableRewritten(ParagraphLines(SplitParagraphs(normalizeWhitespace(input.str), 0, 0)))

\* A table of two data rows that differ has been rewritten into two lines
C5_Witness ==
    /\ pc = "done"
    /\ input.str = <<"|", "x", "|", "y", "|", "\n", "|", "-", "|", ":", "-", "|", "\n",
                     "3", " ", "|", "4", "\n", "|", "1", "|", "|">>
    /\ Len(SplitOn(content, <<"\n">>)) = 2

\* text from pos on is the chunks chs one after the other, with nothing but
\* white space before, between and after them
RECURSIVE ReassemblesFrom(_, _, _)
ReassemblesFrom(text, pos, chs) ==
    IF chs = <<>> THEN \A k \in pos..(Len(text) - 1) : At(text, k) \in WhiteSpace
    ELSE IF StartsWithAt(text, Head(chs), pos)
    THEN ReassemblesFrom(text, pos + Len(Head(chs)), Tail(chs))
    ELSE /\ pos < Len(text)
         /\ At(text, pos) \in WhiteSpace
         /\ ReassemblesFrom(text, pos + 1, chs)

\* C6: the chunks of the chunker, put one after the other, are the pre-chunk
\* text up to white space taken out at the chunk boundaries.
C6_ChunksReassemble ==
    (pc = "render" /\ options.split) => ReassemblesFrom(content, 0, chunks)

\* The text was split in three chunks or more and white space went at a
\* boundary
C6_Witness ==
    /\ pc = "render"
    /\ options.split
    /\ Len(chunks) >= 3
    /\ Len(Flatten(chunks)) < Len(content)

\* A chunk longer than the limit ends where a structural unit that
\* straddles the limit ends
EndsAtStraddlingUnit(chunk, maxLen) ==
    \E span \in UnitSpans(chunk) :
        span[1] < maxLen /\ maxLen < span[2] /\ span[2] = Len(chunk)

\* C7: with split on, every chunk preprocess returns, rendered HTML
\* included, is no longer than maxChunkLength, but for a chunk extended to
\* the end of a structural unit that straddles the limit.
C7_ChunksWithinLimit ==
    (pc = "done" /\ input.isString /\ options.split) =>
        \A k \in 1..Len(result.chunks) :
            \/ Len(result.chunks[k]) <= options.maxChunkLength
            \/ EndsAtStraddlingUnit(result.chunks[k], options.maxChunkLength)

\* The one send of a call that bypassed the pipeline carries what the
\* caller passed
PassedThrough(c, sends) ==
    /\ Len(sends) = 1
    /\ sends[1].args = [chatId |-> calls[c].chatId, text |-> calls[c].text,
                        options |-> calls[c].options]

\* C8: while the wrapper is disabled, by its construction or by disable(),
\* sendMessage makes exactly one send with the caller's text and options as
\* they are; after enable() the pipeline applies again.
C8_DisabledBypasses ==
    \A c \in CallIds :
        calls[c].pc # "idle" =>
            /\ calls[c].setBy = "disable" => ~calls[c].enabledAtCall
            /\ calls[c].setBy = "enable" => calls[c].enabledAtCall
            /\ ~calls[c].enabledAtCall => PassedThrough(c, SendsOf(c))
            /\ Piped(c) =>
                  /\ ChunksPreprocessed(c)
                  /\ SendsAreChunks(c, SendsOf(c))

\* A text the pipeline would split went out whole after disable(), and the
\* next call, after enable(), went out in chunks
C8_Witness ==
    /\ calls["call1"].setBy = "disable"
    /\ calls["call1"].pc = "resolved"
    /\ calls["call1"].text \in {t \in ProxyTexts : Len(t.str) > MaxProxyChunkLen}
    /\ calls["call2"].setBy = "enable"
    /\ calls["call2"].pc = "resolved"
    /\ Len(SendsOf("call2")) > 1

\* C9: when the render mode is HTML, every send of a chunk carries
\* parse_mode HTML if the caller's options held no parse_mode, and the
\* caller's own value whenever they held one.
C9_CallerParseModeKept ==
    \A c \in CallIds :
        (Piped(c) /\ proxyOptions.style = "telegramHtml") =>
            \A k \in 1..Len(SendsOf(c)) :
                SendsOf(c)[k].args.options.parse_mode =
                    IF calls[c].options.parse_mode = Absent THEN "HTML"
                    ELSE calls[c].options.parse_mode

\* The last call the client received through the wrapper is the member
\* call made last, with its argument, bound to the client
LastForwarded ==
    /\ forwarded # <<>>
    /\ forwarded[Len(forwarded)] =
          [method |-> lastAccess.prop, arg |-> lastAccess.arg, thisArg |-> "client"]

\* C10 as stated: every capability of the client other than sendMessage,
\* one named like a member of the wrapper included, is forwarded to the
\* client's own member with the same arguments, bound to the client.
C10_EveryMemberForwarded ==
    \A prop \in clientMethods \ {"sendMessage"} :
        lastAccess.prop = prop => LastForwarded

\* C10: every capability of the client whose name is not the name of a
\* member of the wrapper object is forwarded to the client's own member
\* with the same arguments, bound to the client; a name of a member of the
\* wrapper reaches the wrapper's member and not the client.
C10_OtherMembersForwarded ==
    /\ \A prop \in clientMethods \ WrapperMembers :
          lastAccess.prop = prop => LastForwarded
    /\ \A k \in 1..Len(forwarded) : forwarded[k].method \notin WrapperMembers
    /\ lastAccess.prop \in {"enable", "disable"} => lastSet = lastAccess.prop

\* The client, which has methods enable and disable of its own, received
\* sendPhoto after the wrapper's enable() had run
C10_Witness ==
    /\ "enable" \in clientMethods
    /\ lastSet = "enable"
    /\ lastAccess.prop = "sendPhoto"
    /\ LastForwarded

\* C11: for every string input, the empty and the blank ones and those that
\* end with a fenced block included, and split on, every chunk returned is
\* non-empty and has no white space at its start or at its end.
C11_ChunksTrimmedNonEmpty ==
    (pc = "done" /\ input.isString /\ options.split) =>
        \A k \in 1..Len(result.chunks) :
            /\ result.chunks[k] # <<>>
            /\ Trim(result.chunks[k]) = result.chunks[k]

\* The chunk shows the fenced block m as a <pre><code> element that holds
\* the escaped body, white space at the end of the body aside, and shows
\* no delimiter
RenderedAsPre(chunk, m) ==
    /\ Includes(chunk, PreCodeOpen)
    /\ Includes(chunk, TrimEnd(escapeHtml(m.body)))
    /\ Includes(chunk, PreCodeClose)
    /\ ~Includes(chunk, m.fenceType)

\* C12: in HTML style, every fenced block of the input that lies within one
\* chunk, with or without a language tag, is in the chunk returned a
\* <pre><code> element whose content is the escaped body, never text with
\* its delimiters.
C12_FenceRenderedAsPre ==
    (pc = "done" /\ input.isString /\ IsHtml(options) /\ Len(result.chunks) = 1) =>
        \A k \in 1..Len(FenceMatches(input.str, 0)) :
            RenderedAsPre(result.chunks[1], FenceMatches(input.str, 0)[k])

\* C13: at every iteration of the loop, a remaining text of length maxLen or
\* less is pushed whole as the last chunk: the break is the end of the text.
C13_ShortRemainderWhole ==
    \A k \in 1..Len(breaks) :
        Len(content) - breaks[k][1] <= options.maxChunkLength =>
            breaks[k][2] = Len(content)

\* An iteration of the loop breaks beyond the start it began at, and leaves
\* start beyond it too
StartAdvances ==
    (pc = "loop" /\ pc' = "loop") =>
        /\ breaks'[Len(breaks')][2] > start
        /\ start' > start

\* C14: for every text and every positive maxChunkLength the loop ends:
\* the break of each iteration lies beyond the current start, so start
\* grows at each iteration and the loop reaches the end of the text.
C14_LoopTerminates ==
    /\ [][StartAdvances]_vars
    /\ (pc = "loop") ~> (pc = "render")

\* With maxChunkLength 1 the loop has ended after three iterations or more
C14_Witness ==
    /\ pc = "render"
    /\ options.maxChunkLength = 1
    /\ Len(breaks) >= 3

\* The responses call c holds so far answer its own sends, one each and in
\* the order of the sends, and at most its latest send is not answered yet
OwnResponses(c, sends, positions) ==
    /\ Len(calls[c].responses) <= Len(sends)
    /\ Len(sends) <= Len(calls[c].responses) + 1
    /\ \A k \in 1..Len(calls[c].responses) :
          /\ calls[c].responses[k].message_id = positions[k]
          /\ calls[c].responses[k].text = sends[k].args.text

\* A piped call that has returned has sent every chunk, whatever enabled
\* is by then
AllChunksSent(c, sends) ==
    (Piped(c) /\ calls[c].pc = "resolved") => Len(sends) = Len(calls[c].chunks)

\* C15: when sendMessage calls on one wrapper overlap, and disable() or
\* enable() arrives while one is in flight, under every interleaving each
\* call's chunks reach the client in that call's chunk order, each once;
\* each call's list of responses holds the responses to its own sends, in
\* order; and a call in flight goes on sending its remaining chunks after
\* disable().
C15_OverlappingCallsKeepApart ==
    \A c \in CallIds :
        calls[c].pc # "idle" =>
            /\ OwnResponses(c, SendsOf(c), PositionsOf(c, 1))
            /\ Piped(c) => SendsAreChunks(c, SendsOf(c))
            /\ AllChunksSent(c, SendsOf(c))

\* call1, piped, has returned the responses to its chunks; disable() came
\* while it was in flight, for call2, made after disable(), sent its text
\* between two of call1's chunks
C15_Witness ==
    /\ Piped("call1")
    /\ calls["call1"].pc = "resolved"
    /\ Len(calls["call1"].chunks) >= 2
    /\ calls["call2"].setBy = "disable"
    /\ calls["call2"].pc = "resolved"
    /\ ~proxyOptions.enabled
    /\ \E k \in 2..(Len(clientLog) - 1) :
          /\ clientLog[k].call = "call2"
          /\ clientLog[k - 1].call = "call1"
          /\ clientLog[k + 1].call = "call1"

====
